---- MODULE Spec2Model ----
(***************************************************************************)
(* Listing aggregator of the prisanalyse portal: the request handlers      *)
(* get_bil_data (portal_app.py) and load_and_process_data (slett.py).      *)
(* A request builds the Athena query text from its filters, reads the      *)
(* matching rows, filters them locally, and aggregates them into the       *)
(* per-day summary and the per-item history.                               *)
(* The dashboard callback load_selected_data (slett.py) stores what the    *)
(* latter returns; find_latest_file_in_s3 (portal_app.py) picks the newest *)
(* data file of a bucket listing.                                          *)
(*                                                                         *)
(* Text is a sequence of one-character strings; the fixed pieces of the    *)
(* query templates are single multi-character tokens.  A nullable value    *)
(* (NaN/None/NULL, an absent dict key) is <<>> and a present value v is    *)
(* <<v>>.  A date is <<year, month, day>>.                                 *)
(***************************************************************************)
EXTENDS Integers, Sequences, FiniteSets, TLC

VARIABLES
    table,        \* rows of database_biler_parquet (never written by the program)
    handler,      \* the handler that served the last request
    filters,      \* the filters / arguments of the last request
    query,        \* the query text sent to Athena
    fetch,        \* read_sql_query: "no" not called, "ok" returned a frame, "raised"
    df,           \* the frame read_sql_query returned (<<>> when it raised)
    df_filtered,  \* the frame after the local filters
    daily_stats,  \* the Daily Summary returned
    historikk,    \* the Item History returned
    status,       \* outcome of the request
    response,     \* what list_objects_v2 answers for the bucket (never written by the program)
    latest_file,  \* the key find_latest_file_in_s3 returned
    n_clicks,            \* load-data-button.n_clicks of the last firing of load_selected_data
    state_values,        \* the State values of that firing
    callback,            \* its outcome
    stored_cars_data,    \* dcc.Store stored-cars-data
    stored_daily_stats,  \* dcc.Store stored-daily-stats
    loading_output,      \* children of loading-output
    res_drivstoff_opts,  \* options of res-drivstoff
    res_hjuldrift_opts   \* options of res-hjuldrift

\* the bucket listing and what was found in it
bucket == <<response, latest_file>>

\* the dashboard page of slett.py
dashboard ==
    <<n_clicks, state_values, callback, stored_cars_data, stored_daily_stats,
      loading_output, res_drivstoff_opts, res_hjuldrift_opts>>

vars ==
    <<table, handler, filters, query, fetch, df, df_filtered, daily_stats, historikk, status,
      bucket, dashboard>>

---------------------------------------------------------------------------
(* Nullable values *)

None == <<>>
Some(v) == <<v>>
IsNull(o) == o = <<>>
NotNull(o) == o # <<>>
Val(o) == o[1]

---------------------------------------------------------------------------
(* Text *)

Quote == "'"

\* str.replace("'", "''")
RECURSIVE Replace(_)
Replace(s) ==
    IF s = <<>> THEN <<>>
    ELSE IF Head(s) = Quote THEN <<Quote, Quote>> \o Replace(Tail(s))
    ELSE <<Head(s)>> \o Replace(Tail(s))

\* str.lower() / SQL LOWER() on the alphabet of the model
LowerChar(c) == IF c = "A" THEN "a" ELSE IF c = "B" THEN "b" ELSE c

Lower(s) == [i \in 1..Len(s) |-> LowerChar(s[i])]

Digits == <<"0", "1", "2", "3", "4", "5", "6", "7", "8", "9">>

IsDigit(c) == \E i \in 1..10 : Digits[i] = c

DigitVal(c) == (CHOOSE i \in 1..10 : Digits[i] = c) - 1

\* decimal digits of a natural number
RECURSIVE NatStr(_)
NatStr(n) == IF n < 10 THEN <<Digits[n + 1]>> ELSE NatStr(n \div 10) \o <<Digits[(n % 10) + 1]>>

\* f"{n}" for an int
IntStr(n) == IF n < 0 THEN <<"-">> \o NatStr(0 - n) ELSE NatStr(n)

\* value of a sequence of digits
RECURSIVE NatVal(_)
NatVal(s) == IF s = <<>> THEN 0 ELSE 10 * NatVal(SubSeq(s, 1, Len(s) - 1)) + DigitVal(s[Len(s)])

AllDigits(s) == s # <<>> /\ \A i \in 1..Len(s) : IsDigit(s[i])

\* zero-padded field of a date format
Pad(n, w) == LET s == NatStr(n) IN [i \in 1..(w - Len(s)) |-> "0"] \o s

---------------------------------------------------------------------------
(* Dates *)

IsLeap(y) == (y % 4 = 0 /\ y % 100 # 0) \/ y % 400 = 0

DaysInMonth(y, m) ==
    IF m = 2 THEN (IF IsLeap(y) THEN 29 ELSE 28)
    ELSE IF m \in {4, 6, 9, 11} THEN 30 ELSE 31

RECURSIVE DaysBeforeMonth(_, _)
DaysBeforeMonth(y, m) == IF m = 1 THEN 0 ELSE DaysBeforeMonth(y, m - 1) + DaysInMonth(y, m - 1)

\* proleptic Gregorian ordinal of a date (what pd.to_datetime differences count in days)
ToOrdinal(d) ==
    LET y == d[1] - 1
    IN  y * 365 + (y \div 4) - (y \div 100) + (y \div 400) + DaysBeforeMonth(d[1], d[2]) + d[3]

DateLE(a, b) ==
    \/ a[1] < b[1]
    \/ a[1] = b[1] /\ a[2] < b[2]
    \/ a[1] = b[1] /\ a[2] = b[2] /\ a[3] <= b[3]

\* date.isoformat() and strftime('%Y-%m-%d')
IsoFormat(d) == Pad(d[1], 4) \o <<"-">> \o Pad(d[2], 2) \o <<"-">> \o Pad(d[3], 2)

\* DATE('...') in the query service: Some(date), or None when the text is no date
ParseDate(s) ==
    IF /\ Len(s) = 10
       /\ s[5] = "-" /\ s[8] = "-"
       /\ \A i \in {1, 2, 3, 4, 6, 7, 9, 10} : IsDigit(s[i])
    THEN LET y == NatVal(SubSeq(s, 1, 4))
             m == NatVal(SubSeq(s, 6, 7))
             d == NatVal(SubSeq(s, 9, 10))
         IN  IF m \in 1..12 /\ d >= 1 /\ d <= DaysInMonth(y, m) THEN Some(<<y, m, d>>) ELSE None
    ELSE None

DEFAULT_STARTDATE == <<2025, 5, 1>>

---------------------------------------------------------------------------
(* Request values *)

\* A JSON scalar given for a numeric filter: a number, or a string.
JNum(n) == [t |-> "num", n |-> n, s |-> <<>>]
JStr(s) == [t |-> "str", n |-> 0, s |-> s]

\* Python truthiness of filters.get(key) for a text or list value
TruthyText(o) == NotNull(o) /\ Val(o) # <<>>

\* Python truthiness of filters.get(key) for a JSON scalar: 0 and "" are falsy
TruthyScalar(o) ==
    /\ NotNull(o)
    /\ (Val(o).t = "num" => Val(o).n # 0)
    /\ (Val(o).t = "str" => Val(o).s # <<>>)

\* str.strip() leaves something: the text has a character that is no blank
Strips(s) == \E i \in 1..Len(s) : s[i] # " "

\* "x is not None and str(x).strip()" of load_and_process_data
PresentScalar(o) ==
    /\ NotNull(o)
    /\ (Val(o).t = "str" => Strips(Val(o).s))

\* int(x): Some(n), or None when it raises ValueError
IntOf(j) ==
    IF j.t = "num" THEN Some(j.n)
    ELSE IF AllDigits(j.s) THEN Some(NatVal(j.s))
    ELSE IF Len(j.s) > 1 /\ j.s[1] = "-" /\ AllDigits(Tail(j.s)) THEN Some(0 - NatVal(Tail(j.s)))
    ELSE None

---------------------------------------------------------------------------
(* Query construction *)

SelectFrom == "SELECT * FROM database_biler_parquet WHERE "
AndSep == " AND "

DateClause(op, text) == <<op, Quote>> \o text \o <<Quote, ")">>
EqClause(col, text) == <<col, Quote>> \o text \o <<Quote>>
LikeClause(col, text) == <<col, Quote, "%">> \o text \o <<"%", Quote>>
NumClause(col, n) == <<col>> \o IntStr(n)

\* ' AND '.join(where_clauses)
RECURSIVE Join(_)
Join(cs) ==
    IF cs = <<>> THEN <<>>
    ELSE IF Len(cs) = 1 THEN cs[1]
    ELSE cs[1] \o <<AndSep>> \o Join(Tail(cs))

BuildQuery(cs) == <<SelectFrom>> \o Join(cs)

\* get_bil_data: the clause each filter contributes (<<>> when it contributes none)
BilDateClauses(f) ==
    << DateClause("date(dato) >= DATE(",
                  IF IsNull(f.startdato) THEN IsoFormat(DEFAULT_STARTDATE) ELSE Val(f.startdato)) >>

BilProdusentClause(f) ==
    IF TruthyText(f.produsent) THEN << EqClause("produsent = ", Val(f.produsent)) >> ELSE <<>>

BilModellClause(f) ==
    IF TruthyText(f.modell) THEN << EqClause("modell = ", Replace(Val(f.modell))) >> ELSE <<>>

BilSokClauses(f) ==
    (IF TruthyText(f.modell_sok)
     THEN << LikeClause("LOWER(overskrift) LIKE ", Replace(Lower(Val(f.modell_sok)))) >> ELSE <<>>)
    \o
    (IF TruthyText(f.seller_sok)
     THEN << LikeClause("LOWER(selger) LIKE ", Replace(Lower(Val(f.seller_sok)))) >> ELSE <<>>)

BilRangeClauses(f) ==
    (IF TruthyScalar(f.range_min)
     THEN << NumClause("rekkevidde_str >= ", Val(IntOf(Val(f.range_min)))) >> ELSE <<>>)
    \o
    (IF TruthyScalar(f.range_max)
     THEN << NumClause("rekkevidde_str <= ", Val(IntOf(Val(f.range_max)))) >> ELSE <<>>)

BilWhereClauses(f) ==
    BilDateClauses(f) \o BilProdusentClause(f) \o BilModellClause(f)
        \o BilSokClauses(f) \o BilRangeClauses(f)

\* an int() of get_bil_data before the query is sent raises ValueError
BilQueryRaises(f) ==
    \/ TruthyScalar(f.range_min) /\ IsNull(IntOf(Val(f.range_min)))
    \/ TruthyScalar(f.range_max) /\ IsNull(IntOf(Val(f.range_max)))

\* load_and_process_data: the clauses of its arguments
SlettDateClauses(a) ==
    << DateClause("date(dato) >= DATE(", IsoFormat(a.min_dato)),
       DateClause("date(dato) <= DATE(", IsoFormat(a.max_dato)) >>

SlettProdusentClause(a) ==
    IF TruthyText(a.selected_produsent)
    THEN << EqClause("produsent = ", Val(a.selected_produsent)) >> ELSE <<>>

SlettModellClause(a) ==
    IF TruthyText(a.selected_modell)
    THEN << EqClause("modell = ", Replace(Val(a.selected_modell))) >> ELSE <<>>

SlettSokClauses(a) ==
    (IF TruthyText(a.pf_modell_sok) /\ Strips(Val(a.pf_modell_sok))
     THEN << LikeClause("LOWER(overskrift) LIKE ", Lower(Replace(Val(a.pf_modell_sok)))) >> ELSE <<>>)
    \o
    (IF TruthyText(a.pf_seller_sok) /\ Strips(Val(a.pf_seller_sok))
     THEN << LikeClause("LOWER(selger) LIKE ", Lower(Replace(Val(a.pf_seller_sok)))) >> ELSE <<>>)

SlettRangeClauses(a) ==
    (IF PresentScalar(a.pf_range_min)
     THEN << NumClause("rekkevidde_str >= ", Val(IntOf(Val(a.pf_range_min)))) >> ELSE <<>>)
    \o
    (IF PresentScalar(a.pf_range_max)
     THEN << NumClause("rekkevidde_str <= ", Val(IntOf(Val(a.pf_range_max)))) >> ELSE <<>>)

SlettWhereClauses(a) ==
    SlettDateClauses(a) \o SlettProdusentClause(a) \o SlettModellClause(a)
        \o SlettSokClauses(a) \o SlettRangeClauses(a)

SlettQueryRaises(a) ==
    \/ PresentScalar(a.pf_range_min) /\ IsNull(IntOf(Val(a.pf_range_min)))
    \/ PresentScalar(a.pf_range_max) /\ IsNull(IntOf(Val(a.pf_range_max)))

---------------------------------------------------------------------------
(* The query service: wr.athena.read_sql_query on the query text *)

\* A quoted literal from position j on (after its opening quote): a doubled quote is
\* one quote character, a single quote ends the literal.
RECURSIVE ScanLiteral(_, _, _)
ScanLiteral(toks, j, acc) ==
    IF j > Len(toks) THEN [ok |-> FALSE, val |-> acc, next |-> j]
    ELSE IF toks[j] = Quote
         THEN IF j + 1 <= Len(toks) /\ toks[j + 1] = Quote
              THEN ScanLiteral(toks, j + 2, Append(acc, Quote))
              ELSE [ok |-> TRUE, val |-> acc, next |-> j + 1]
         ELSE ScanLiteral(toks, j + 1, Append(acc, toks[j]))

\* '...' at position i
ParseLiteral(toks, i) ==
    IF i <= Len(toks) /\ toks[i] = Quote THEN ScanLiteral(toks, i + 1, <<>>)
    ELSE [ok |-> FALSE, val |-> <<>>, next |-> i]

\* the digits from position j on
RECURSIVE ScanDigits(_, _, _)
ScanDigits(toks, j, acc) ==
    IF j <= Len(toks) /\ IsDigit(toks[j]) THEN ScanDigits(toks, j + 1, Append(acc, toks[j]))
    ELSE [ok |-> acc # <<>>, val |-> NatVal(acc), next |-> j]

\* an integer literal at position i
ParseNumber(toks, i) ==
    IF i <= Len(toks) /\ toks[i] = "-"
    THEN LET r == ScanDigits(toks, i + 1, <<>>) IN [r EXCEPT !.val = 0 - r.val]
    ELSE ScanDigits(toks, i, <<>>)

NoPred == [col |-> "", op |-> "", val |-> <<>>]
Failed(i) == [ok |-> FALSE, pred |-> NoPred, next |-> i]

\* one predicate of the WHERE clause at position i
ParseClause(toks, i) ==
    IF i > Len(toks) THEN Failed(i)
    ELSE IF toks[i] \in {"date(dato) >= DATE(", "date(dato) <= DATE("}
    THEN LET l == ParseLiteral(toks, i + 1)
             d == ParseDate(l.val)
         IN  IF l.ok /\ NotNull(d) /\ l.next <= Len(toks) /\ toks[l.next] = ")"
             THEN [ok |-> TRUE, next |-> l.next + 1,
                   pred |-> [col |-> "dato",
                             op |-> IF toks[i] = "date(dato) >= DATE(" THEN ">=" ELSE "<=",
                             val |-> Val(d)]]
             ELSE Failed(i)
    ELSE IF toks[i] \in {"produsent = ", "modell = "}
    THEN LET l == ParseLiteral(toks, i + 1)
         IN  IF l.ok
             THEN [ok |-> TRUE, next |-> l.next,
                   pred |-> [col |-> IF toks[i] = "produsent = " THEN "produsent" ELSE "modell",
                             op |-> "=", val |-> l.val]]
             ELSE Failed(i)
    ELSE IF toks[i] \in {"LOWER(overskrift) LIKE ", "LOWER(selger) LIKE "}
    THEN LET l == ParseLiteral(toks, i + 1)
         IN  IF l.ok
             THEN [ok |-> TRUE, next |-> l.next,
                   pred |-> [col |-> IF toks[i] = "LOWER(overskrift) LIKE " THEN "overskrift" ELSE "selger",
                             op |-> "LIKE", val |-> l.val]]
             ELSE Failed(i)
    ELSE IF toks[i] \in {"rekkevidde_str >= ", "rekkevidde_str <= "}
    THEN LET n == ParseNumber(toks, i + 1)
         IN  IF n.ok
             THEN [ok |-> TRUE, next |-> n.next,
                   pred |-> [col |-> "rekkevidde_str",
                             op |-> IF toks[i] = "rekkevidde_str >= " THEN ">=" ELSE "<=",
                             val |-> n.val]]
             ELSE Failed(i)
    ELSE Failed(i)

\* the predicates of the WHERE clause from position i on, joined by AND
RECURSIVE ParsePreds(_, _, _)
ParsePreds(toks, i, acc) ==
    LET c == ParseClause(toks, i)
    IN  IF ~c.ok THEN [ok |-> FALSE, preds |-> acc]
        ELSE IF c.next > Len(toks) THEN [ok |-> TRUE, preds |-> Append(acc, c.pred)]
        ELSE IF toks[c.next] = AndSep THEN ParsePreds(toks, c.next + 1, Append(acc, c.pred))
        ELSE [ok |-> FALSE, preds |-> acc]

\* the statement as the service reads it; ok is FALSE on a syntax error
ParseQuery(q) ==
    IF Len(q) >= 1 /\ q[1] = SelectFrom THEN ParsePreds(q, 2, <<>>)
    ELSE [ok |-> FALSE, preds |-> <<>>]

\* s LIKE p: % matches any run of characters, _ any one character
RECURSIVE LikeMatch(_, _)
LikeMatch(s, p) ==
    IF p = <<>> THEN s = <<>>
    ELSE IF Head(p) = "%"
         THEN LikeMatch(s, Tail(p)) \/ (s # <<>> /\ LikeMatch(Tail(s), p))
         ELSE s # <<>> /\ (Head(p) = "_" \/ Head(p) = Head(s)) /\ LikeMatch(Tail(s), Tail(p))

\* a predicate on a row; a NULL column satisfies none
EvalPred(row, p) ==
    IF p.col = "dato"
    THEN IF p.op = ">=" THEN DateLE(p.val, row.dato) ELSE DateLE(row.dato, p.val)
    ELSE IF p.col = "produsent" THEN NotNull(row.produsent) /\ Val(row.produsent) = p.val
    ELSE IF p.col = "modell" THEN NotNull(row.modell) /\ Val(row.modell) = p.val
    ELSE IF p.col = "overskrift"
    THEN NotNull(row.overskrift) /\ LikeMatch(Lower(Val(row.overskrift)), p.val)
    ELSE IF p.col = "selger"
    THEN NotNull(row.selger) /\ LikeMatch(Lower(Val(row.selger)), p.val)
    ELSE /\ NotNull(row.rekkevidde_str)
         /\ IF p.op = ">=" THEN Val(row.rekkevidde_str) >= p.val
                           ELSE Val(row.rekkevidde_str) <= p.val

RowMatches(row, preds) == \A k \in 1..Len(preds) : EvalPred(row, preds[k])

\* the rows the statement selects from tbl (the statement parses)
SelectRows(tbl, q) ==
    LET preds == ParseQuery(q).preds
        Keep(row) == RowMatches(row, preds)
    IN  SelectSeq(tbl, Keep)

---------------------------------------------------------------------------
(* Local filters on the frame *)

\* Series.isin(list): a null value is in no list
IsIn(o, list) == NotNull(o) /\ \E i \in 1..Len(list) : list[i] = Val(o)

\* df[df[col] >= n] and df[df[col] <= n]: a null value passes neither comparison
KeepGE(d, col, n) == LET Keep(r) == NotNull(r[col]) /\ Val(r[col]) >= n IN SelectSeq(d, Keep)
KeepLE(d, col, n) == LET Keep(r) == NotNull(r[col]) /\ Val(r[col]) <= n IN SelectSeq(d, Keep)
KeepIn(d, col, list) == LET Keep(r) == IsIn(r[col], list) IN SelectSeq(d, Keep)

\* mutant: a given list filters even when it is empty, so [] matches nothing
BilIsinFilterGiven(d, f, key) == IF NotNull(f[key]) THEN KeepIn(d, key, Val(f[key])) ELSE d

\* get_bil_data: "if filters.get(key): df = df[...]", one line per filter
BilIsinFilter(d, f, key) == IF TruthyText(f[key]) THEN KeepIn(d, key, Val(f[key])) ELSE d

BilMinFilter(d, f, key, col) ==
    IF TruthyScalar(f[key]) THEN KeepGE(d, col, Val(IntOf(Val(f[key])))) ELSE d

BilMaxFilter(d, f, key, col) ==
    IF TruthyScalar(f[key]) THEN KeepLE(d, col, Val(IntOf(Val(f[key])))) ELSE d

BilPostFilter(d, f) ==
    LET d1 == BilIsinFilter(d, f, "drivstoff")
        d2 == BilIsinFilter(d1, f, "hjuldrift")
        d3 == BilMinFilter(d2, f, "year_min", "aarstall")
        d4 == BilMaxFilter(d3, f, "year_max", "aarstall")
        d5 == BilMinFilter(d4, f, "km_min", "kjorelengde")
    IN  BilMaxFilter(d5, f, "km_max", "kjorelengde")

\* an int() of the local filters of get_bil_data raises ValueError
BilFilterRaises(f) ==
    \E key \in {"year_min", "year_max", "km_min", "km_max"} :
        TruthyScalar(f[key]) /\ IsNull(IntOf(Val(f[key])))

\* load_and_process_data: the post-filters on its keyword arguments
SlettIsinFilter(d, a, key, col) == IF TruthyText(a[key]) THEN KeepIn(d, col, Val(a[key])) ELSE d

SlettMinFilter(d, a, key, col) ==
    IF PresentScalar(a[key]) THEN KeepGE(d, col, Val(IntOf(Val(a[key])))) ELSE d

SlettMaxFilter(d, a, key, col) ==
    IF PresentScalar(a[key]) THEN KeepLE(d, col, Val(IntOf(Val(a[key])))) ELSE d

SlettPostFilter(d, a) ==
    LET d1 == SlettIsinFilter(d, a, "pf_drivstoff", "drivstoff")
        d2 == SlettIsinFilter(d1, a, "pf_hjuldrift", "hjuldrift")
        d3 == SlettMinFilter(d2, a, "pf_year_min", "aarstall")
        d4 == SlettMaxFilter(d3, a, "pf_year_max", "aarstall")
        d5 == SlettMinFilter(d4, a, "pf_km_min", "kjorelengde")
    IN  SlettMaxFilter(d5, a, "pf_km_max", "kjorelengde")

SlettFilterRaises(a) ==
    \E key \in {"pf_year_min", "pf_year_max", "pf_km_min", "pf_km_max"} :
        PresentScalar(a[key]) /\ IsNull(IntOf(Val(a[key])))

---------------------------------------------------------------------------
(* Aggregation *)

\* the values of a set of integers in ascending order
RECURSIVE SortedInts(_)
SortedInts(S) ==
    IF S = {} THEN <<>>
    ELSE LET m == CHOOSE x \in S : \A y \in S : x <= y IN <<m>> \o SortedInts(S \ {m})

\* the dates of a set in ascending order
RECURSIVE SortedDates(_)
SortedDates(S) ==
    IF S = {} THEN <<>>
    ELSE LET m == CHOOSE x \in S : \A y \in S : DateLE(x, y) IN <<m>> \o SortedDates(S \ {m})

\* a sequence of integers in ascending order (repeated values kept)
RECURSIVE SortAsc(_)
SortAsc(xs) ==
    IF xs = <<>> THEN <<>>
    ELSE LET i == CHOOSE k \in 1..Len(xs) : \A j \in 1..Len(xs) : xs[k] <= xs[j]
         IN  <<xs[i]>> \o SortAsc(SubSeq(xs, 1, i - 1) \o SubSeq(xs, i + 1, Len(xs)))

\* the pris_num column of a frame restricted to the rows a test on the price keeps
PricesWhere(d, Test(_)) ==
    LET Keep(r) == NotNull(r.pris_num) /\ Test(Val(r.pris_num))
        kept == SelectSeq(d, Keep)
    IN  [i \in 1..Len(kept) |-> Val(kept[i].pris_num)]

IsZero(x) == x = 0
IsPositive(x) == x > 0

\* Series.median(): NaN (None) for no value, the middle value, or the mean of the two
\* middle values (the prices of the model are even, so that mean is a whole number)
Median(xs) ==
    LET s == SortAsc(xs)
        n == Len(s)
    IN  IF n = 0 THEN None
        ELSE IF n % 2 = 1 THEN Some(s[(n + 1) \div 2])
        ELSE Some((s[n \div 2] + s[(n \div 2) + 1]) \div 2)

\* lambda x: (x == 0).sum()
AntallSolgt(d) == Len(PricesWhere(d, IsZero))

\* mutant: the median over every price, the sold sentinel included
MedianPrisAll(d) == Median(PricesWhere(d, LAMBDA x : TRUE))

\* lambda x: x[x > 0].median()
MedianPrisUsolgt(d) == Median(PricesWhere(d, IsPositive))

\* the rows of a groupby group
RowsOfDate(d, dato) == LET Keep(r) == r.dato = dato IN SelectSeq(d, Keep)
RowsOfItem(d, k) == LET Keep(r) == r.finnkode = Some(k) IN SelectSeq(d, Keep)

\* mutant: only the dates, the items, that have an unsold observation
DatesOfUnsold(d) ==
    {d[i].dato : i \in {j \in 1..Len(d) : NotNull(d[j].pris_num) /\ Val(d[j].pris_num) > 0}}
ItemsOfUnsold(d) ==
    {Val(d[i].finnkode) : i \in {j \in 1..Len(d) : NotNull(d[j].pris_num) /\ Val(d[j].pris_num) > 0}}

DatesOf(d) == {d[i].dato : i \in 1..Len(d)}
\* groupby drops the rows whose key is null
ItemsOf(d) == {Val(d[i].finnkode) : i \in {j \in 1..Len(d) : NotNull(d[j].finnkode)}}

\* get_bil_data: df.groupby('dato').agg(...), one record per date in key order
BilDailyRow(g, dato) ==
    [dato |-> dato,
     Antall_Solgt |-> AntallSolgt(g),
     Median_Pris_Usolgt |-> MedianPrisUsolgt(g),
     Dato |-> IsoFormat(dato)]

BilDailyStats(d) ==
    LET ks == SortedDates(DatesOf(d))
    IN  [i \in 1..Len(ks) |-> BilDailyRow(RowsOfDate(d, ks[i]), ks[i])]

\* load_and_process_data: the same with Antall_Totalt, without the dato column
SlettDailyRow(g, dato) ==
    [Antall_Totalt |-> Len(g),
     Antall_Solgt |-> AntallSolgt(g),
     Median_Pris_Usolgt |-> MedianPrisUsolgt(g),
     Dato |-> IsoFormat(dato)]

SlettDailyStats(d) ==
    LET ks == SortedDates(DatesOf(d))
    IN  [i \in 1..Len(ks) |-> SlettDailyRow(RowsOfDate(d, ks[i]), ks[i])]

\* df.sort_values('dato'): the default sort is not stable, so rows of one date come in
\* any order; the set of the frames it may produce
RECURSIVE SortPerms(_, _)
SortPerms(d, idx) ==
    IF idx = {} THEN {<<>>}
    ELSE LET mins == {i \in idx : \A j \in idx : DateLE(d[i].dato, d[j].dato)}
         IN  UNION {{<<d[i]>> \o rest : rest \in SortPerms(d, idx \ {i})} : i \in mins}

SortValues(d) == SortPerms(d, 1..Len(d))

\* mutant: the value of the column in the first row of the group, null or not
FirstOfRow(g, col) == IF g = <<>> THEN None ELSE g[1][col]

\* GroupBy 'first' and 'last': the first / last value of the column that is not null
RECURSIVE First(_, _)
First(g, col) ==
    IF g = <<>> THEN None
    ELSE IF NotNull(g[1][col]) THEN g[1][col] ELSE First(Tail(g), col)

RECURSIVE Last(_, _)
Last(g, col) ==
    IF g = <<>> THEN None
    ELSE IF NotNull(g[Len(g)][col]) THEN g[Len(g)][col] ELSE Last(SubSeq(g, 1, Len(g) - 1), col)

\* mutant: the last price of the group, the sold sentinel included
PrisLastAnyPrice(g) == Last(g, "pris_num")

\* lambda x: x[x > 0].iloc[-1] if not x[x > 0].empty else None
PrisLast(g) ==
    LET pos == PricesWhere(g, IsPositive)
    IN  IF pos = <<>> THEN None ELSE Some(pos[Len(pos)])

\* mutant: a null side counts as 0
MinusFillZero(a, b) == Some((IF IsNull(a) THEN 0 ELSE Val(a)) - (IF IsNull(b) THEN 0 ELSE Val(b)))

\* a difference of two nullable columns: null when either side is null
Minus(a, b) == IF IsNull(a) \/ IsNull(b) THEN None ELSE Some(Val(a) - Val(b))

\* mutant: the difference of the days of the month
DagerOfMonth(dato_start, dato_end) == dato_end[3] - dato_start[3]

\* (pd.to_datetime(dato_end) - pd.to_datetime(dato_start)).dt.days
Dager(dato_start, dato_end) == ToOrdinal(dato_end) - ToOrdinal(dato_start)

\* get_bil_data: one history row of a group g of the sorted frame
BilHistorikkRow(g, k) ==
    LET dato_start == g[1].dato
        dato_end == g[Len(g)].dato
        pris_start == First(g, "pris_num")
        pris_last == PrisLast(g)
    IN  [finnkode |-> k,
         overskrift |-> Last(g, "overskrift"),
         aarstall |-> Last(g, "aarstall"),
         kjorelengde |-> Last(g, "kjorelengde"),
         drivstoff |-> Last(g, "drivstoff"),
         hjuldrift |-> Last(g, "hjuldrift"),
         rekkevidde |-> Last(g, "rekkevidde_str"),
         selger |-> Last(g, "selger"),
         dato_start |-> dato_start,
         dato_end |-> dato_end,
         pris_start |-> pris_start,
         pris_last |-> pris_last,
         dager |-> Dager(dato_start, dato_end),
         prisfall |-> Minus(pris_last, pris_start)]

\* the history of a sorted frame, one row per item in key order
BilHistorikk(sorted) ==
    LET ks == SortedInts(ItemsOf(sorted))
    IN  [i \in 1..Len(ks) |-> BilHistorikkRow(RowsOfItem(sorted, ks[i]), ks[i])]

\* load_and_process_data: the same with produsent and modell, and the dates as text
SlettHistorikkRow(g, k) ==
    LET dato_start == g[1].dato
        dato_end == g[Len(g)].dato
        pris_start == First(g, "pris_num")
        pris_last == PrisLast(g)
    IN  [finnkode |-> k,
         produsent |-> Last(g, "produsent"),
         modell |-> Last(g, "modell"),
         overskrift |-> Last(g, "overskrift"),
         aarstall |-> Last(g, "aarstall"),
         kjorelengde |-> Last(g, "kjorelengde"),
         drivstoff |-> Last(g, "drivstoff"),
         hjuldrift |-> Last(g, "hjuldrift"),
         rekkevidde_str |-> Last(g, "rekkevidde_str"),
         selger |-> Last(g, "selger"),
         dato_start |-> IsoFormat(dato_start),
         dato_end |-> IsoFormat(dato_end),
         pris_start |-> pris_start,
         pris_last |-> pris_last,
         dager |-> Dager(dato_start, dato_end),
         prisfall |-> Minus(pris_last, pris_start),
         rekkevidde |-> Last(g, "rekkevidde_str")]

SlettHistorikk(sorted) ==
    LET ks == SortedInts(ItemsOf(sorted))
    IN  [i \in 1..Len(ks) |-> SlettHistorikkRow(RowsOfItem(sorted, ks[i]), ks[i])]

---------------------------------------------------------------------------
(* The request handlers *)

\* the response carries no frame, no summary and no history
NoResult(st) ==
    /\ df' = <<>>
    /\ df_filtered' = <<>>
    /\ daily_stats' = <<>>
    /\ historikk' = <<>>
    /\ status' = st

\* mutant: an empty collection is answered as an error
EmptyResultAsError(d, fd, st) ==
    /\ df' = d
    /\ df_filtered' = fd
    /\ daily_stats' = <<>>
    /\ historikk' = <<>>
    /\ status' = "500"

\* the response carries the empty summary and the empty history
EmptyResult(d, fd, st) ==
    /\ df' = d
    /\ df_filtered' = fd
    /\ daily_stats' = <<>>
    /\ historikk' = <<>>
    /\ status' = st

\* POST /get_bil_data with the JSON filters f; athena_up: the query service answers
get_bil_data(f, athena_up) ==
    /\ status = "idle"
    /\ handler' = "get_bil_data"
    /\ filters' = f
    /\ UNCHANGED <<table, bucket, dashboard>>
    /\ IF BilQueryRaises(f)
       THEN query' = <<>> /\ fetch' = "no" /\ NoResult("500")
       ELSE LET q == BuildQuery(BilWhereClauses(f))
            IN  /\ query' = q
                /\ fetch' = IF athena_up /\ ParseQuery(q).ok THEN "ok" ELSE "raised"
                /\ IF ~athena_up \/ ~ParseQuery(q).ok
                   THEN NoResult("500")
                   ELSE LET d == SelectRows(table, q)
                        IN  IF d = <<>> THEN EmptyResult(d, d, "200")
                            ELSE IF BilFilterRaises(f)
                            THEN /\ df' = d
                                 /\ df_filtered' = <<>>
                                 /\ daily_stats' = <<>>
                                 /\ historikk' = <<>>
                                 /\ status' = "500"
                            ELSE LET fd == BilPostFilter(d, f)
                                 IN  IF fd = <<>> THEN EmptyResult(d, fd, "200")
                                     ELSE \E sorted \in SortValues(fd) :
                                            /\ df' = d
                                            /\ df_filtered' = fd
                                            /\ daily_stats' = BilDailyStats(fd)
                                            /\ historikk' = BilHistorikk(sorted)
                                            /\ status' = "200"

\* load_and_process_data(selected_produsent, selected_modell, min_dato, max_dato, **kwargs)
\* with the arguments a; it returns (historikk, daily_stats) or raises.  The function
\* touches neither the bucket nor the page: its caller says what becomes of those.
load_and_process_data(a, athena_up) ==
    /\ status = "idle"
    /\ handler' = "load_and_process_data"
    /\ filters' = a
    /\ UNCHANGED table
    /\ IF SlettQueryRaises(a)
       THEN query' = <<>> /\ fetch' = "no" /\ NoResult("raised")
       ELSE LET q == BuildQuery(SlettWhereClauses(a))
            IN  /\ query' = q
                /\ fetch' = IF athena_up /\ ParseQuery(q).ok THEN "ok" ELSE "raised"
                /\ IF ~athena_up \/ ~ParseQuery(q).ok
                   THEN NoResult("returned")
                   ELSE LET d == SelectRows(table, q)
                        IN  IF d = <<>> THEN EmptyResult(d, d, "returned")
                            ELSE IF SlettFilterRaises(a)
                            THEN /\ df' = d
                                 /\ df_filtered' = <<>>
                                 /\ daily_stats' = <<>>
                                 /\ historikk' = <<>>
                                 /\ status' = "raised"
                            ELSE LET fd == SlettPostFilter(d, a)
                                 IN  IF fd = <<>> THEN EmptyResult(d, fd, "returned")
                                     ELSE \E sorted \in SortValues(fd) :
                                            /\ df' = d
                                            /\ df_filtered' = fd
                                            /\ daily_stats' = SlettDailyStats(fd)
                                            /\ historikk' = SlettHistorikk(sorted)
                                            /\ status' = "returned"

\* a call of load_and_process_data from outside the page
call_load_and_process_data(a, athena_up) ==
    /\ load_and_process_data(a, athena_up)
    /\ UNCHANGED <<bucket, dashboard>>

---------------------------------------------------------------------------
(* The dashboard callback load_selected_data *)

\* the characters of the model in code-point order
Ascii == <<"%", "'", "A", "B", "_", "a", "b", "x", "z">>

CharCode(c) == CHOOSE i \in 1..Len(Ascii) : Ascii[i] = c

\* a < b for str
RECURSIVE TextLT(_, _)
TextLT(a, b) ==
    IF b = <<>> THEN FALSE
    ELSE IF a = <<>> THEN TRUE
    ELSE IF Head(a) = Head(b) THEN TextLT(Tail(a), Tail(b))
    ELSE CharCode(Head(a)) < CharCode(Head(b))

\* sorted(...) of a set of texts
RECURSIVE SortedTexts(_)
SortedTexts(S) ==
    IF S = {} THEN <<>>
    ELSE LET m == CHOOSE x \in S : \A y \in S : x = y \/ TextLT(x, y)
         IN  <<m>> \o SortedTexts(S \ {m})

\* sorted(df_loaded[col].dropna().unique()) if col in df_loaded and not df_loaded.empty
\* else []
ResOpts(df_loaded, col) ==
    SortedTexts({Val(df_loaded[i][col]) : i \in {j \in 1..Len(df_loaded) : NotNull(df_loaded[j][col])}})

\* the columns of the history frame
HistorikkColumns ==
    <<"finnkode", "produsent", "modell", "overskrift", "aarstall", "kjorelengde", "drivstoff",
      "hjuldrift", "rekkevidde_str", "selger", "dato_start", "dato_end", "pris_start",
      "pris_last", "dager", "prisfall", "rekkevidde">>

\* df_loaded.to_json(orient='split'); the empty frame pd.DataFrame() has no columns
ToJsonSplit(df_loaded) ==
    [columns |-> IF df_loaded = <<>> THEN <<>> ELSE HistorikkColumns,
     index |-> [i \in 1..Len(df_loaded) |-> i - 1],
     data |-> df_loaded]

\* json.dumps(daily_stats): the text of the list
JsonDumps(stats) == [json |-> stats]

\* f"Lastet inn {len(df_loaded)} bilhistorikker."
LoadedMessage(df_loaded) == <<"Lastet inn ">> \o IntStr(Len(df_loaded)) \o <<" bilhistorikker.">>

SelectMessage == <<"Vennligst velg en produsent eller bruk et av søkefeltene.">>

\* date.fromisoformat(startdato_str): Some(date), or None when it raises ValueError
FromIsoFormat(text) ==
    IF /\ Len(text) = 10
       /\ text[5] = "-" /\ text[8] = "-"
       /\ \A i \in {1, 2, 3, 4, 6, 7, 9, 10} : IsDigit(text[i])
    THEN LET y == NatVal(SubSeq(text, 1, 4))
             m == NatVal(SubSeq(text, 6, 7))
             d == NatVal(SubSeq(text, 9, 10))
         IN  IF y >= 1 /\ m \in 1..12 /\ d >= 1 /\ d <= DaysInMonth(y, m)
             THEN Some(<<y, m, d>>) ELSE None
    ELSE None

\* min_dato = date.fromisoformat(startdato_str) if startdato_str else DEFAULT_STARTDATE
MinDato(sv) ==
    IF TruthyText(sv.startdato_str) THEN FromIsoFormat(Val(sv.startdato_str))
    ELSE Some(DEFAULT_STARTDATE)

\* "x or []"
OrEmpty(o) == IF TruthyText(o) THEN o ELSE Some(<<>>)

\* the arguments load_selected_data passes to load_and_process_data
CallArgs(sv, min_dato, today) ==
    [selected_produsent |-> sv.produsent, selected_modell |-> sv.modell,
     min_dato |-> min_dato, max_dato |-> today,
     pf_modell_sok |-> sv.modell_sok, pf_seller_sok |-> sv.seller_sok,
     pf_range_min |-> sv.range_fra, pf_range_max |-> sv.range_til,
     pf_drivstoff |-> OrEmpty(sv.pf_drivstoff), pf_hjuldrift |-> OrEmpty(sv.pf_hjuldrift),
     pf_year_min |-> sv.year_fra, pf_year_max |-> sv.year_til,
     pf_km_min |-> sv.km_fra, pf_km_max |-> sv.km_til]

\* mutant: only a missing click count counts as no click
NoClickNone(n) == IsNull(n)

\* "not n_clicks": no count, or the count 0
NoClick(n) == IsNull(n) \/ Val(n) = 0

\* "not produsent and not modell_sok and not seller_sok"
NothingSelected(sv) ==
    /\ ~TruthyText(sv.produsent)
    /\ ~TruthyText(sv.modell_sok)
    /\ ~TruthyText(sv.seller_sok)

\* the callback load_selected_data fired with n_clicks n and the State values sv, on the
\* day today
load_selected_data(n, sv, today, athena_up) ==
    /\ status = "idle"
    /\ n_clicks' = n
    /\ state_values' = sv
    /\ UNCHANGED bucket
    /\ IF NoClick(n)
       THEN /\ callback' = "prevent_update"
            /\ UNCHANGED <<table, handler, filters, query, fetch, df, df_filtered,
                           daily_stats, historikk, status>>
            /\ UNCHANGED <<stored_cars_data, stored_daily_stats, loading_output,
                           res_drivstoff_opts, res_hjuldrift_opts>>
       ELSE IF NothingSelected(sv)
       THEN /\ callback' = "no_update"
            /\ loading_output' = Some(SelectMessage)
            /\ UNCHANGED <<table, handler, filters, query, fetch, df, df_filtered,
                           daily_stats, historikk, status>>
            /\ UNCHANGED <<stored_cars_data, stored_daily_stats,
                           res_drivstoff_opts, res_hjuldrift_opts>>
       ELSE IF IsNull(MinDato(sv))
       THEN /\ callback' = "raised"
            /\ UNCHANGED <<table, handler, filters, query, fetch, df, df_filtered,
                           daily_stats, historikk, status>>
            /\ UNCHANGED <<stored_cars_data, stored_daily_stats, loading_output,
                           res_drivstoff_opts, res_hjuldrift_opts>>
       ELSE /\ load_and_process_data(CallArgs(sv, Val(MinDato(sv)), today), athena_up)
            /\ IF status' = "raised"
               THEN /\ callback' = "raised"
                    /\ UNCHANGED <<stored_cars_data, stored_daily_stats, loading_output,
                                   res_drivstoff_opts, res_hjuldrift_opts>>
               ELSE /\ callback' = "updated"
                    /\ stored_cars_data' = Some(ToJsonSplit(historikk'))
                    /\ stored_daily_stats' = Some(JsonDumps(daily_stats'))
                    /\ loading_output' = Some(LoadedMessage(historikk'))
                    /\ res_drivstoff_opts' = Some(ResOpts(historikk', "drivstoff"))
                    /\ res_hjuldrift_opts' = Some(ResOpts(historikk', "hjuldrift"))

---------------------------------------------------------------------------
(* find_latest_file_in_s3.  A key is text whose fixed pieces ("raw/bolig-daglig/",
   "bolig_X_", ".csv") are single tokens and whose date is one character per position. *)

\* re.search(r'bolig_X_(\d{2}-\d{2}-\d{4})\.csv', key): group 1 of the leftmost match, or
\* None
MatchesAt(key, i) ==
    /\ i + 11 <= Len(key)
    /\ key[i] = "bolig_X_"
    /\ \A k \in {1, 2, 4, 5, 7, 8, 9, 10} : IsDigit(key[i + k])
    /\ key[i + 3] = "-" /\ key[i + 6] = "-"
    /\ key[i + 11] = ".csv"

ReSearch(key) ==
    LET I == {i \in 1..Len(key) : MatchesAt(key, i)}
    IN  IF I = {} THEN None
        ELSE LET m == CHOOSE i \in I : \A j \in I : i <= j IN Some(SubSeq(key, m + 1, m + 10))

\* datetime.strptime(text, '%d-%m-%Y'): Some(date), or None when it raises ValueError
Strptime(text) ==
    LET d == NatVal(SubSeq(text, 1, 2))
        m == NatVal(SubSeq(text, 4, 5))
        y == NatVal(SubSeq(text, 7, 10))
    IN  IF y >= 1 /\ m \in 1..12 /\ d >= 1 /\ d <= DaysInMonth(y, m) THEN Some(<<y, m, d>>) ELSE None

\* the loop over response['Contents'] from position i on, with latest_file and latest_date
\* so far; raised: strptime raised ValueError, which nothing in the function catches
RECURSIVE ScanContents(_, _, _, _)
ScanContents(contents, i, file, latest_date) ==
    IF i > Len(contents) THEN [raised |-> FALSE, key |-> file]
    ELSE LET key == contents[i]
             match == ReSearch(key)
         IN  IF IsNull(match) THEN ScanContents(contents, i + 1, file, latest_date)
             ELSE LET file_date == Strptime(Val(match))
                  IN  IF IsNull(file_date) THEN [raised |-> TRUE, key |-> None]
                      ELSE IF IsNull(latest_date) \/ ~DateLE(Val(file_date), Val(latest_date))
                      THEN ScanContents(contents, i + 1, Some(key), file_date)
                      ELSE ScanContents(contents, i + 1, file, latest_date)

\* find_latest_file_in_s3(s3_client, bucket, prefix, file_pattern) with the pattern of its
\* two call sites, on the answer the bucket gives to list_objects_v2
find_latest_file_in_s3 ==
    /\ status = "idle"
    /\ handler' = "find_latest_file_in_s3"
    /\ LET r == IF response.error = "ClientError" THEN [raised |-> FALSE, key |-> None]
                ELSE IF IsNull(response.Contents) THEN [raised |-> FALSE, key |-> None]
                ELSE ScanContents(Val(response.Contents), 1, None, None)
       IN  /\ latest_file' = r.key
           /\ status' = IF r.raised THEN "raised" ELSE "returned"
    /\ UNCHANGED <<table, filters, query, fetch, df, df_filtered, daily_stats, historikk>>
    /\ UNCHANGED <<response, dashboard>>

\* the handler has returned: the frames and results of the request are dropped with its
\* scope (nothing is kept between requests), and the next request starts afresh
request_done ==
    /\ status # "idle"
    /\ handler' = "none"
    /\ filters' = <<>>
    /\ query' = <<>>
    /\ fetch' = "no"
    /\ NoResult("idle")
    /\ latest_file' = <<>>
    /\ UNCHANGED <<table, response, dashboard>>

---------------------------------------------------------------------------
(* Inputs *)

\* list_objects_v2 answers without 'Contents': the prefix holds no object
NoListing == [error |-> "none", Contents |-> None]

\* no callback of the page has fired, and its stores are empty
NoCallback ==
    /\ n_clicks = None
    /\ state_values = <<>>
    /\ callback = "none"
    /\ stored_cars_data = None
    /\ stored_daily_stats = None
    /\ loading_output = None
    /\ res_drivstoff_opts = None
    /\ res_hjuldrift_opts = None

\* no request is being served
NoRequest ==
    /\ handler = "none"
    /\ filters = <<>>
    /\ query = <<>>
    /\ fetch = "no"
    /\ df = <<>>
    /\ df_filtered = <<>>
    /\ daily_stats = <<>>
    /\ historikk = <<>>
    /\ status = "idle"
    /\ latest_file = None

\* the state the request handlers start in
Idle == NoRequest /\ NoCallback /\ response = NoListing

\* the filters of a request that sets none
NoFilters ==
    [startdato |-> None, produsent |-> None, modell |-> None, modell_sok |-> None,
     seller_sok |-> None, range_min |-> None, range_max |-> None,
     drivstoff |-> None, hjuldrift |-> None,
     year_min |-> None, year_max |-> None, km_min |-> None, km_max |-> None]

\* the arguments of a call that sets no filter: load_selected_data passes the start date,
\* today, and [] for an unset drivstoff / hjuldrift
NoArgs(min_dato, max_dato) ==
    [selected_produsent |-> None, selected_modell |-> None,
     min_dato |-> min_dato, max_dato |-> max_dato,
     pf_modell_sok |-> None, pf_seller_sok |-> None,
     pf_range_min |-> None, pf_range_max |-> None,
     pf_drivstoff |-> Some(<<>>), pf_hjuldrift |-> Some(<<>>),
     pf_year_min |-> None, pf_year_max |-> None, pf_km_min |-> None, pf_km_max |-> None]

\* date.today() of the calls of the model
Today == <<2025, 6, 30>>

\* a table row; the columns a specification does not vary hold these values
BaseRow ==
    [finnkode |-> Some(1), dato |-> DEFAULT_STARTDATE,
     produsent |-> Some(<<"a">>), modell |-> Some(<<"b">>), overskrift |-> Some(<<"a", "b">>),
     aarstall |-> Some(2020), kjorelengde |-> Some(5000), drivstoff |-> Some(<<"a">>),
     hjuldrift |-> Some(<<"b">>), rekkevidde_str |-> Some(400), selger |-> Some(<<"a">>),
     pris_num |-> Some(100)]

\* the sets of at most k rows of R
RECURSIVE SetsUpTo(_, _)
SetsUpTo(R, k) ==
    IF k = 0 THEN {{}}
    ELSE LET P == SetsUpTo(R, k - 1) IN P \cup {rs \cup {r} : rs \in P, r \in R}

RECURSIVE SetToSeq(_)
SetToSeq(S) == IF S = {} THEN <<>> ELSE LET r == CHOOSE x \in S : TRUE IN <<r>> \o SetToSeq(S \ {r})

\* the tables of at most k distinct rows of R
Tables(R, k) == {SetToSeq(rs) : rs \in SetsUpTo(R, k)}

-------------------------------------------------------------------------------------------------------------------------------------------------
(* Aggregation: tables that vary item, date, price and fuel type; requests that set no
   constraint, and requests that filter on the fuel type *)

MaxRows == 2

AggDates == {<<2025, 4, 30>>, <<2025, 5, 1>>, <<2025, 5, 10>>, <<2025, 6, 2>>}
AggPrices == {None, Some(0), Some(100), Some(200)}

AggRows ==
    {[BaseRow EXCEPT !.finnkode = Some(k), !.dato = d, !.pris_num = p] :
        k \in {1, 2}, d \in AggDates, p \in AggPrices}
    \cup
    {[BaseRow EXCEPT !.finnkode = Some(k), !.dato = d, !.drivstoff = Some(<<"b">>)] :
        k \in {1, 2}, d \in AggDates}

\* requests that set no constraint: nothing given, or empty lists and empty text
UnsetFilters ==
    {NoFilters,
     [NoFilters EXCEPT !.drivstoff = Some(<<>>), !.hjuldrift = Some(<<>>),
                       !.modell_sok = Some(<<>>), !.year_min = Some(JStr(<<>>))]}

AggFilters == UnsetFilters \cup {[NoFilters EXCEPT !.drivstoff = Some(<< <<"a">> >>)]}

UnsetArgs == {NoArgs(DEFAULT_STARTDATE, Today)}

AggArgs ==
    UnsetArgs \cup {[NoArgs(DEFAULT_STARTDATE, Today) EXCEPT !.pf_drivstoff = Some(<< <<"a">> >>)]}

InitAgg == table \in Tables(AggRows, MaxRows) /\ Idle

NextAgg ==
    \/ \E f \in AggFilters, up \in BOOLEAN : get_bil_data(f, up)
    \/ \E a \in AggArgs, up \in BOOLEAN : call_load_and_process_data(a, up)
    \/ request_done

SpecAgg == InitAgg /\ [][NextAgg]_vars

---------------------------------------------------------------------------
(* Properties of the aggregation *)

\* the request read its frame and was answered with a summary and a history
Answered == status \in {"200", "returned"} /\ fetch = "ok"

\* the rows of the filtered collection of one item, of one date
ItemIdx(k) == {j \in 1..Len(df_filtered) : df_filtered[j].finnkode = Some(k)}
DateIdx(text) == {j \in 1..Len(df_filtered) : IsoFormat(df_filtered[j].dato) = text}

\* among the rows J, those with a price > 0, and those with the price 0
PositiveIdx(J) ==
    {j \in J : NotNull(df_filtered[j].pris_num) /\ Val(df_filtered[j].pris_num) > 0}
SoldIdx(J) ==
    {j \in J : NotNull(df_filtered[j].pris_num) /\ Val(df_filtered[j].pris_num) = 0}

\* the rows of J of the latest, of the earliest date
LatestIdx(J) == {j \in J : \A k \in J : DateLE(df_filtered[k].dato, df_filtered[j].dato)}
EarliestIdx(J) == {j \in J : \A k \in J : DateLE(df_filtered[j].dato, df_filtered[k].dato)}

\* the calendar days d with a <= d < b, counted one by one
DaysFromTo(a, b) ==
    Cardinality({d \in {<<y, m, n>> : y \in {a[1], b[1]}, m \in 1..12, n \in 1..31} :
                    /\ d[3] <= DaysInMonth(d[1], d[2])
                    /\ DateLE(a, d) /\ DateLE(d, b) /\ d # b})

\* C2: in every history row, pris_last is the price of a latest-dated observation of the
\* item among those with a price > 0, and is null (never 0) when the item has none.
C2_PrisLastIsLastPositive ==
    Answered =>
        \A i \in 1..Len(historikk) :
            LET P == PositiveIdx(ItemIdx(historikk[i].finnkode))
            IN  IF P = {} THEN historikk[i].pris_last = None
                ELSE \E j \in LatestIdx(P) : historikk[i].pris_last = df_filtered[j].pris_num

\* the example of the claim: a price, then the sold sentinel nine days later
C2_Witness ==
    /\ Answered
    /\ Len(df_filtered) = 2
    /\ \E j, k \in 1..2 :
        /\ df_filtered[j].finnkode = Some(1) /\ df_filtered[k].finnkode = Some(1)
        /\ df_filtered[j].dato = <<2025, 5, 1>> /\ df_filtered[j].pris_num = Some(200)
        /\ df_filtered[k].dato = <<2025, 5, 10>> /\ df_filtered[k].pris_num = Some(0)
    /\ Len(historikk) = 1
    /\ historikk[1].pris_start = Some(200)
    /\ historikk[1].pris_last = Some(200)
    /\ historikk[1].dager = 9
    /\ historikk[1].prisfall = Some(0)

\* the lower and the upper median of the prices of the rows P, by counting
IsLowerMedian(P, v) ==
    LET n == Cardinality(P)
        pos == (n + 1) \div 2
    IN  /\ \E j \in P : Val(df_filtered[j].pris_num) = v
        /\ Cardinality({j \in P : Val(df_filtered[j].pris_num) < v}) < pos
        /\ Cardinality({j \in P : Val(df_filtered[j].pris_num) <= v}) >= pos

IsUpperMedian(P, v) ==
    LET n == Cardinality(P)
        pos == (n \div 2) + 1
    IN  /\ \E j \in P : Val(df_filtered[j].pris_num) = v
        /\ Cardinality({j \in P : Val(df_filtered[j].pris_num) < v}) < pos
        /\ Cardinality({j \in P : Val(df_filtered[j].pris_num) <= v}) >= pos

\* C3: every Daily Summary record counts the observations of its date with price 0 in
\* Antall_Solgt and holds the median of those with a price > 0 in Median_Pris_Usolgt,
\* which is null when the date has no observation with a price > 0.
C3_DailyCountAndMedian ==
    Answered =>
        \A i \in 1..Len(daily_stats) :
            LET D == DateIdx(daily_stats[i].Dato)
                P == PositiveIdx(D)
                m == daily_stats[i].Median_Pris_Usolgt
            IN  /\ daily_stats[i].Antall_Solgt = Cardinality(SoldIdx(D))
                /\ IF P = {} THEN m = None
                   ELSE /\ NotNull(m)
                        /\ \E lo, hi \in {Val(df_filtered[j].pris_num) : j \in P} :
                            /\ IsLowerMedian(P, lo)
                            /\ IsUpperMedian(P, hi)
                            /\ 2 * Val(m) = lo + hi

\* a date on which every observation is sold: the count is 2 and the median is null
C3_Witness ==
    /\ Answered
    /\ \E i \in 1..Len(daily_stats) :
        /\ daily_stats[i].Antall_Solgt = 2
        /\ daily_stats[i].Median_Pris_Usolgt = None
        /\ PositiveIdx(DateIdx(daily_stats[i].Dato)) = {}

\* C4: the Daily Summary has exactly one record per distinct date of the filtered
\* collection: no date missing, none added, none twice.
C4_DailyDatesAreFilteredDates ==
    Answered =>
        /\ {daily_stats[i].Dato : i \in 1..Len(daily_stats)}
             = {IsoFormat(df_filtered[j].dato) : j \in 1..Len(df_filtered)}
        /\ \A i, k \in 1..Len(daily_stats) : daily_stats[i].Dato = daily_stats[k].Dato => i = k

\* the filter dropped the row of another date, and the date left has nothing unsold
C4_Witness ==
    /\ Answered
    /\ Len(df_filtered) < Len(df)
    /\ Len(daily_stats) = 1
    /\ daily_stats[1].Median_Pris_Usolgt = None
    /\ \E j \in 1..Len(df) : IsoFormat(df[j].dato) # daily_stats[1].Dato

\* C5: the Item History has exactly one row per distinct item id of the filtered
\* collection, and none for an id without an observation left after filtering.
C5_HistoryItemsAreFilteredItems ==
    Answered =>
        /\ {historikk[i].finnkode : i \in 1..Len(historikk)}
             = {Val(df_filtered[j].finnkode) : j \in 1..Len(df_filtered)}
        /\ \A i, k \in 1..Len(historikk) :
             historikk[i].finnkode = historikk[k].finnkode => i = k

\* the filter dropped the only observation of an item, and the item left has no price > 0
C5_Witness ==
    /\ Answered
    /\ Len(df) = 2 /\ Len(df_filtered) = 1
    /\ df[1].finnkode # df[2].finnkode
    /\ Len(historikk) = 1
    /\ historikk[1].pris_last = None

\* C6: in every history row, dager is the number of days from the item's earliest to its
\* latest observation date, is >= 0, and is 0 when the item has one observation.
C6_DagerIsDaysBetween ==
    Answered =>
        \A i \in 1..Len(historikk) :
            LET G == ItemIdx(historikk[i].finnkode)
            IN  /\ \E a \in EarliestIdx(G), b \in LatestIdx(G) :
                     historikk[i].dager = DaysFromTo(df_filtered[a].dato, df_filtered[b].dato)
                /\ historikk[i].dager >= 0
                /\ Cardinality(G) = 1 => historikk[i].dager = 0

\* an item seen on 2025-05-10 and on 2025-06-02, across the end of a month
C6_Witness ==
    /\ Answered
    /\ \E i \in 1..Len(historikk) :
        /\ historikk[i].dager = 23
        /\ Cardinality(ItemIdx(historikk[i].finnkode)) = 2

\* C7 as stated: an item with one observation, of any price p, has dager = 0 and
\* prisfall = p - p.
C7_SingleObservationDeltaIsZero ==
    Answered =>
        \A i \in 1..Len(historikk) :
            LET G == ItemIdx(historikk[i].finnkode)
            IN  \A j \in G :
                  (G = {j} /\ NotNull(df_filtered[j].pris_num)) =>
                      /\ historikk[i].dager = 0
                      /\ historikk[i].prisfall = Some(0)

\* C7 as amended: an item with one observation has dager = 0; its prisfall is 0 when
\* the price of the observation is > 0 and null when it is 0 or missing.
C7_SingleObservation ==
    Answered =>
        \A i \in 1..Len(historikk) :
            LET G == ItemIdx(historikk[i].finnkode)
            IN  \A j \in G :
                  G = {j} =>
                      /\ historikk[i].dager = 0
                      /\ historikk[i].prisfall = (IF j \in PositiveIdx(G) THEN Some(0) ELSE None)

\* an item with one observation of a price > 0, and one with one sold observation
C7_Witness ==
    /\ Answered
    /\ Len(historikk) = 2
    /\ Len(df_filtered) = 2
    /\ historikk[1].prisfall = Some(0) /\ historikk[1].dager = 0
    /\ historikk[2].prisfall = None /\ historikk[2].pris_start = Some(0)

\* among the rows J, those that carry a price
PricedIdx(J) == {j \in J : NotNull(df_filtered[j].pris_num)}

\* C14: in every history row, prisfall is null exactly when pris_last is null, and is
\* otherwise pris_last minus pris_start, the last price > 0 of the item minus the price of
\* its earliest observation that carries one.
C14_PrisfallIsLastMinusStart ==
    Answered =>
        \A i \in 1..Len(historikk) :
            LET h == historikk[i]
                G == ItemIdx(h.finnkode)
            IN  /\ (h.prisfall = None) <=> (h.pris_last = None)
                /\ (h.pris_last = None) <=> (PositiveIdx(G) = {})
                /\ NotNull(h.pris_last) =>
                     /\ NotNull(h.pris_start)
                     /\ h.prisfall = Some(Val(h.pris_last) - Val(h.pris_start))
                     /\ \E j \in LatestIdx(PositiveIdx(G)) : h.pris_last = df_filtered[j].pris_num
                     /\ \E j \in EarliestIdx(PricedIdx(G)) : h.pris_start = df_filtered[j].pris_num

\* an item whose price fell from 200 to 100
C14_Witness ==
    /\ Answered
    /\ \E i \in 1..Len(historikk) :
        /\ historikk[i].pris_start = Some(200)
        /\ historikk[i].pris_last = Some(100)
        /\ historikk[i].prisfall = Some(0 - 100)
        /\ historikk[i].dager > 0

\* the last request set no constraint
UnsetRequest ==
    \/ handler = "get_bil_data" /\ filters \in UnsetFilters
    \/ handler = "load_and_process_data" /\ filters \in UnsetArgs

\* the row is in the date window every query carries: from the start date (the default
\* 2025-05-01 when none is given), and up to max_dato in load_and_process_data
InDateWindow(r) ==
    IF handler = "get_bil_data" THEN DateLE(DEFAULT_STARTDATE, r.dato)
    ELSE DateLE(filters.min_dato, r.dato) /\ DateLE(r.dato, filters.max_dato)

\* C10: a request that sets no constraint (nothing given, or empty lists and empty text)
\* filters nothing: the frame the query returned holds every row of the table in the
\* date window, the local filters keep all of it, and the Daily Summary and the Item
\* History are the aggregation of that whole collection.
C10_UnsetFiltersAggregateEverything ==
    (Answered /\ UnsetRequest) =>
        /\ df = SelectSeq(table, InDateWindow)
        /\ df_filtered = df
        /\ IF df = <<>> THEN daily_stats = <<>> /\ historikk = <<>>
           ELSE IF handler = "get_bil_data"
           THEN /\ daily_stats = BilDailyStats(df)
                /\ \E sorted \in SortValues(df) : historikk = BilHistorikk(sorted)
           ELSE /\ daily_stats = SlettDailyStats(df)
                /\ \E sorted \in SortValues(df) : historikk = SlettHistorikk(sorted)

\* get_bil_data with empty drivstoff and hjuldrift lists, answered with the history of
\* both rows of the table
C10_Witness ==
    /\ Answered
    /\ handler = "get_bil_data"
    /\ filters.drivstoff = Some(<<>>)
    /\ Len(df) = 2
    /\ df_filtered = table
    /\ Len(historikk) = 2

---------------------------------------------------------------------------
(* Failure of the external fetch *)

\* C11: when the external fetch of a request fails, the request is answered with an error:
\* never with a normal result (in particular not with the empty result of a fetch that
\* matched no rows), and with no summary and no history.
C11_FetchFailureIsError ==
    fetch = "raised" =>
        /\ status \notin {"200", "returned"}
        /\ daily_stats = <<>>
        /\ historikk = <<>>


---------------------------------------------------------------------------
(* Local filters: tables that vary date, model year, odometer and fuel type of one item;
   requests that set range bounds and a fuel-type list *)

MaxFiltRows == 2

FiltRows ==
    {[BaseRow EXCEPT !.dato = d, !.aarstall = y, !.kjorelengde = km, !.drivstoff = dr] :
        d \in {<<2025, 5, 1>>, <<2025, 5, 10>>},
        y \in {None, Some(2015), Some(2020)},
        km \in {Some(0), Some(5000)},
        dr \in {None, Some(<<"a">>), Some(<<"b">>)}}

YearBounds == {None, Some(JNum(2015)), Some(JStr(<<"2", "0", "2", "0">>))}
KmBounds == {None, Some(JNum(0)), Some(JNum(5000))}

FiltFilters ==
    {[NoFilters EXCEPT !.year_min = lo, !.year_max = hi] : lo, hi \in YearBounds}
    \cup {[NoFilters EXCEPT !.km_min = lo, !.km_max = hi] : lo, hi \in KmBounds}
    \cup {[NoFilters EXCEPT !.drivstoff = Some(<< <<"a">> >>), !.km_max = Some(JNum(5000))]}

FiltArgs ==
    {[NoArgs(DEFAULT_STARTDATE, Today) EXCEPT !.pf_year_min = lo, !.pf_year_max = hi] :
        lo, hi \in {None, Some(JNum(2015))}}
    \cup {[NoArgs(DEFAULT_STARTDATE, Today) EXCEPT !.pf_km_min = lo, !.pf_km_max = hi] :
        lo, hi \in KmBounds}
    \cup {[NoArgs(DEFAULT_STARTDATE, Today) EXCEPT !.pf_drivstoff = Some(<< <<"a">> >>),
                                                   !.pf_km_max = Some(JNum(5000))]}

InitFilt == table \in Tables(FiltRows, MaxFiltRows) /\ Idle

NextFilt ==
    \/ \E f \in FiltFilters, up \in BOOLEAN : get_bil_data(f, up)
    \/ \E a \in FiltArgs, up \in BOOLEAN : call_load_and_process_data(a, up)
    \/ request_done

SpecFilt == InitFilt /\ [][NextFilt]_vars

\* the date, as the handler of the last request emits it in a history row
DateOut(d) == IF handler = "get_bil_data" THEN d ELSE IsoFormat(d)

\* the rows J are of different dates, so that their order by date is determined
DistinctDates(J) == \A j, k \in J : df_filtered[j].dato = df_filtered[k].dato => j = k

\* C8: in every history row (of an item observed once per date), each descriptive field
\* is that field's value in the most recent observation of the item, also when it is
\* null there; pris_start and dato_start are the price and date of the earliest
\* observation, dato_end the date of the latest one.
C8_FieldsOfMostRecentObservation ==
    Answered =>
        \A i \in 1..Len(historikk) :
            LET h == historikk[i]
                G == ItemIdx(h.finnkode)
            IN  DistinctDates(G) =>
                /\ \E j \in LatestIdx(G) :
                    /\ h.overskrift = df_filtered[j].overskrift
                    /\ h.aarstall = df_filtered[j].aarstall
                    /\ h.kjorelengde = df_filtered[j].kjorelengde
                    /\ h.drivstoff = df_filtered[j].drivstoff
                    /\ h.hjuldrift = df_filtered[j].hjuldrift
                    /\ h.rekkevidde = df_filtered[j].rekkevidde_str
                    /\ h.selger = df_filtered[j].selger
                    /\ h.dato_end = DateOut(df_filtered[j].dato)
                /\ \E j \in EarliestIdx(G) :
                    /\ h.pris_start = df_filtered[j].pris_num
                    /\ h.dato_start = DateOut(df_filtered[j].dato)

\* the integer a range bound of the request carries: Some(n), or None when it is absent
BoundOf(o) == IF NotNull(o) THEN IntOf(Val(o)) ELSE None

AboveBound(o, x) == NotNull(BoundOf(o)) => (NotNull(x) /\ Val(x) >= Val(BoundOf(o)))
BelowBound(o, x) == NotNull(BoundOf(o)) => (NotNull(x) /\ Val(x) <= Val(BoundOf(o)))

\* the row is within every range bound the last request carries
WithinBounds(r) ==
    IF handler = "get_bil_data"
    THEN /\ AboveBound(filters.year_min, r.aarstall) /\ BelowBound(filters.year_max, r.aarstall)
         /\ AboveBound(filters.km_min, r.kjorelengde) /\ BelowBound(filters.km_max, r.kjorelengde)
    ELSE /\ AboveBound(filters.pf_year_min, r.aarstall) /\ BelowBound(filters.pf_year_max, r.aarstall)
         /\ AboveBound(filters.pf_km_min, r.kjorelengde) /\ BelowBound(filters.pf_km_max, r.kjorelengde)

\* only the range bounds constrain the last request (no fuel-type or drivetrain list)
OnlyBounds ==
    IF handler = "get_bil_data"
    THEN ~TruthyText(filters.drivstoff) /\ ~TruthyText(filters.hjuldrift)
    ELSE ~TruthyText(filters.pf_drivstoff) /\ ~TruthyText(filters.pf_hjuldrift)

\* C9: with range bounds in the request, whatever their integer values, the filtered
\* collection keeps exactly the rows of the frame whose value is >= each lower bound and
\* <= each upper bound.
C9_RangeBoundsInclusive ==
    (Answered /\ OnlyBounds) => df_filtered = SelectSeq(df, WithinBounds)

---------------------------------------------------------------------------
(* Query text: requests whose text filters carry quotes, on tables whose text columns
   carry quotes *)

MaxStrLen == 2
MaxQueryRows == 1

\* the texts of at most n characters of an alphabet
RECURSIVE Texts(_, _)
Texts(alphabet, n) ==
    IF n = 0 THEN {<<>>}
    ELSE LET T == Texts(alphabet, n - 1) IN T \cup {Append(t, c) : t \in T, c \in alphabet}

QueryTexts == Texts({"a", Quote}, MaxStrLen)

QueryRows ==
    {[BaseRow EXCEPT !.produsent = Some(pr), !.modell = Some(mo),
                     !.overskrift = Some(ov), !.selger = Some(ov)] :
        pr \in {<<"a">>, <<"a", Quote>>},
        mo \in {<<"a">>, <<"a", Quote>>},
        ov \in {<<"A", "a">>, <<Quote>>}}

QueryFilters ==
    {[NoFilters EXCEPT !.produsent = Some(t)] : t \in QueryTexts}
    \cup {[NoFilters EXCEPT !.modell = Some(t)] : t \in QueryTexts}
    \cup {[NoFilters EXCEPT !.modell_sok = Some(t)] : t \in QueryTexts}
    \cup {[NoFilters EXCEPT !.seller_sok = Some(t)] : t \in QueryTexts}
    \cup {[NoFilters EXCEPT !.startdato = Some(t)] :
            t \in {IsoFormat(<<2025, 4, 1>>), <<Quote>> \o IsoFormat(<<2025, 4, 1>>)}}
    \cup {[NoFilters EXCEPT !.range_min = Some(lo), !.range_max = Some(JNum(400))] :
            lo \in {JNum(400), JStr(<<"5", "0", "0">>)}}

QueryArgs ==
    {[NoArgs(DEFAULT_STARTDATE, Today) EXCEPT !.selected_produsent = Some(t)] : t \in QueryTexts}
    \cup {[NoArgs(DEFAULT_STARTDATE, Today) EXCEPT !.selected_modell = Some(t)] : t \in QueryTexts}
    \cup {[NoArgs(DEFAULT_STARTDATE, Today) EXCEPT !.pf_modell_sok = Some(t)] : t \in QueryTexts}
    \cup {[NoArgs(DEFAULT_STARTDATE, Today) EXCEPT !.pf_seller_sok = Some(t)] : t \in QueryTexts}
    \cup {[NoArgs(DEFAULT_STARTDATE, Today) EXCEPT !.pf_range_min = Some(JNum(400)),
                                                   !.pf_range_max = Some(JNum(400))]}

InitQuery == table \in Tables(QueryRows, MaxQueryRows) /\ Idle

NextQuery ==
    \/ \E f \in QueryFilters, up \in BOOLEAN : get_bil_data(f, up)
    \/ \E a \in QueryArgs, up \in BOOLEAN : call_load_and_process_data(a, up)
    \/ request_done

SpecQuery == InitQuery /\ [][NextQuery]_vars

\* the string literals of a statement, as the query service reads them: ok is FALSE when
\* a literal is not terminated
RECURSIVE Literals(_, _, _)
Literals(toks, i, acc) ==
    IF i > Len(toks) THEN [ok |-> TRUE, vals |-> acc]
    ELSE IF toks[i] = Quote
         THEN LET l == ScanLiteral(toks, i + 1, <<>>)
              IN  IF l.ok THEN Literals(toks, l.next, Append(acc, l.val))
                  ELSE [ok |-> FALSE, vals |-> acc]
         ELSE Literals(toks, i + 1, acc)

\* the text values the last request interpolates into string literals, in clause order
TextIf(o) == IF TruthyText(o) THEN <<Val(o)>> ELSE <<>>
PatternIf(o, stripped) ==
    IF TruthyText(o) /\ (stripped => Strips(Val(o))) THEN << <<"%">> \o Lower(Val(o)) \o <<"%">> >>
    ELSE <<>>

InterpolatedTexts ==
    IF handler = "get_bil_data"
    THEN << IF IsNull(filters.startdato) THEN IsoFormat(DEFAULT_STARTDATE) ELSE Val(filters.startdato) >>
         \o TextIf(filters.produsent) \o TextIf(filters.modell)
         \o PatternIf(filters.modell_sok, FALSE) \o PatternIf(filters.seller_sok, FALSE)
    ELSE << IsoFormat(filters.min_dato), IsoFormat(filters.max_dato) >>
         \o TextIf(filters.selected_produsent) \o TextIf(filters.selected_modell)
         \o PatternIf(filters.pf_modell_sok, TRUE) \o PatternIf(filters.pf_seller_sok, TRUE)

\* C1: in the query text of every request, the quotes of each interpolated text value
\* are doubled: every string literal of the statement is terminated by the quote of its
\* template, so the literals read back are exactly the values interpolated.
C1_QuotesDoubled ==
    query # <<>> =>
        /\ Literals(query, 1, <<>>).ok
        /\ Literals(query, 1, <<>>).vals = InterpolatedTexts

---------------------------------------------------------------------------
(* Rejected and empty requests: tables whose rows a bound or a fuel-type list can all
   drop; requests whose numeric filters carry numbers, digit strings and other text *)

MaxErrRows == 2

ErrRows ==
    {[BaseRow EXCEPT !.dato = d, !.aarstall = y, !.rekkevidde_str = r] :
        d \in {<<2025, 4, 30>>, <<2025, 5, 1>>},
        y \in {Some(2015), Some(2020)},
        r \in {None, Some(400)}}

\* the values a numeric filter may carry
ErrValues == {JNum(3000), JStr(<<"2", "0", "1", "5">>), JStr(<<"x">>), JStr(<<"1", "x">>)}

ErrFilters ==
    {NoFilters, [NoFilters EXCEPT !.drivstoff = Some(<< <<"b">> >>)]}
    \cup {[NoFilters EXCEPT ![k] = Some(v)] :
            k \in {"range_min", "range_max", "year_min", "year_max", "km_min", "km_max"},
            v \in ErrValues}
    \cup {[NoFilters EXCEPT !.drivstoff = Some(<< <<"b">> >>), !.km_max = Some(v)] : v \in ErrValues}

ErrArgs ==
    {NoArgs(DEFAULT_STARTDATE, Today),
     [NoArgs(DEFAULT_STARTDATE, Today) EXCEPT !.pf_drivstoff = Some(<< <<"b">> >>)]}
    \cup {[NoArgs(DEFAULT_STARTDATE, Today) EXCEPT ![k] = Some(v)] :
            k \in {"pf_range_min", "pf_range_max", "pf_year_min", "pf_year_max",
                   "pf_km_min", "pf_km_max"},
            v \in ErrValues}

InitErr == table \in Tables(ErrRows, MaxErrRows) /\ Idle

NextErr ==
    \/ \E f \in ErrFilters, up \in BOOLEAN : get_bil_data(f, up)
    \/ \E a \in ErrArgs, up \in BOOLEAN : call_load_and_process_data(a, up)
    \/ request_done

SpecErr == InitErr /\ [][NextErr]_vars

\* the value given for a numeric filter is text that is no integer
NonInteger(o) ==
    /\ NotNull(o)
    /\ Val(o).t = "str"
    /\ Val(o).s # <<>>
    /\ IsNull(IntOf(Val(o)))

\* the text occurs somewhere in the statement
OccursIn(text, q) == \E i \in 1..Len(q) : i + Len(text) - 1 <= Len(q) /\ SubSeq(q, i, i + Len(text) - 1) = text

\* C12: a request to get_bil_data that carries a non-integer value for range_min,
\* range_max, year_min, year_max, km_min or km_max is rejected: it is answered with the
\* error status, no statement holding the unparsed value is sent, and no summary and no
\* history is returned.
C12_NonIntegerRejected ==
    handler = "get_bil_data" =>
        \A k \in {"range_min", "range_max", "year_min", "year_max", "km_min", "km_max"} :
            NonInteger(filters[k]) =>
                /\ status = "500"
                /\ (fetch = "no" \/ ~OccursIn(Val(filters[k]).s, query))
                /\ daily_stats = <<>>
                /\ historikk = <<>>

\* the local filters of the last request ran to their end (no int() of theirs raised)
FiltersCompleted ==
    IF handler = "get_bil_data" THEN ~BilFilterRaises(filters) ELSE ~SlettFilterRaises(filters)

\* the frame was read, and it is empty as read or after the local filters
EmptyCollection ==
    /\ handler \in {"get_bil_data", "load_and_process_data"}
    /\ fetch = "ok"
    /\ \/ df = <<>>
       \/ FiltersCompleted /\ df_filtered = <<>>

\* C13: a request whose collection is empty, as read or after the local filters, is no
\* error: it is answered with the success status, an empty history and an empty summary.
C13_EmptyIsNotAnError ==
    EmptyCollection =>
        /\ status = (IF handler = "get_bil_data" THEN "200" ELSE "returned")
        /\ historikk = <<>>
        /\ daily_stats = <<>>

\* get_bil_data read rows and its year bound dropped all of them
C13_Witness ==
    /\ handler = "get_bil_data"
    /\ status = "200"
    /\ NotNull(filters.year_min)
    /\ df # <<>>
    /\ df_filtered = <<>>
    /\ historikk = <<>>
    /\ daily_stats = <<>>

---------------------------------------------------------------------------
(* Search filters: tables that vary headline and seller; requests that search either, with
   letters of both cases, quotes and the wildcard characters of LIKE *)

MaxSearchLen == 2
MaxSearchRows == 1

SearchTexts == Texts({"a", "B", "_", "%", Quote}, MaxSearchLen)

SearchRows ==
    {[BaseRow EXCEPT !.overskrift = ov, !.selger = se] :
        ov \in {None, Some(<<"A", "b">>), Some(<<"a", "_">>), Some(<<"%", Quote>>)},
        se \in {Some(<<"B">>), Some(<<"a", "a">>)}}

SearchFilters ==
    {[NoFilters EXCEPT !.modell_sok = Some(t)] : t \in SearchTexts}
    \cup {[NoFilters EXCEPT !.seller_sok = Some(t)] : t \in SearchTexts}

SearchArgs ==
    {[NoArgs(DEFAULT_STARTDATE, Today) EXCEPT !.pf_modell_sok = Some(t)] : t \in SearchTexts}
    \cup {[NoArgs(DEFAULT_STARTDATE, Today) EXCEPT !.pf_seller_sok = Some(t)] : t \in SearchTexts}

InitSearch == table \in Tables(SearchRows, MaxSearchRows) /\ Idle

NextSearch ==
    \/ \E f \in SearchFilters, up \in BOOLEAN : get_bil_data(f, up)
    \/ \E a \in SearchArgs, up \in BOOLEAN : call_load_and_process_data(a, up)
    \/ request_done

SpecSearch == InitSearch /\ [][NextSearch]_vars

\* the headline search and the seller search of the last request
ModellSok == IF handler = "get_bil_data" THEN filters.modell_sok ELSE filters.pf_modell_sok
SellerSok == IF handler = "get_bil_data" THEN filters.seller_sok ELSE filters.pf_seller_sok

\* the lower-cased field holds the lower-cased text, character by character
ContainsNoCase(field, text) == NotNull(field) /\ OccursIn(Lower(text), Lower(Val(field)))

\* the row passes each search the last request carries
PassesSearch(r) ==
    /\ TruthyText(ModellSok) => ContainsNoCase(r.overskrift, Val(ModellSok))
    /\ TruthyText(SellerSok) => ContainsNoCase(r.selger, Val(SellerSok))

\* C15: the frame read for a request with a headline or seller search holds exactly the
\* rows (of the date window) whose lower-cased headline, or seller name, contains the
\* lower-cased search text literally, whatever characters the text holds.
C15_SearchIsLiteralSubstring ==
    Answered =>
        LET Keep(r) == InDateWindow(r) /\ PassesSearch(r)
        IN  df = SelectSeq(table, Keep)

---------------------------------------------------------------------------
(* Bucket listings: keys that match the pattern with valid and with impossible dates,
   keys that do not match, in any order *)

MaxKeys == 3

\* the text of a date in a key, day first
DmyFormat(d) == Pad(d[3], 2) \o <<"-">> \o Pad(d[2], 2) \o <<"-">> \o Pad(d[1], 4)

S3Keys ==
    {<<"raw/bolig-daglig/", "bolig_X_">> \o DmyFormat(d) \o <<".csv">> :
        d \in {<<2025, 5, 1>>, <<2025, 5, 10>>, <<2025, 6, 2>>, <<2025, 2, 31>>}}
    \cup {<<"raw/bolig-daglig/", "old/", "bolig_X_">> \o DmyFormat(<<2025, 6, 2>>) \o <<".csv">>,
          <<"raw/bolig-daglig/", "bolig_Y_">> \o DmyFormat(<<2025, 6, 30>>) \o <<".csv">>,
          <<"raw/bolig-daglig/", "bolig_X_">> \o DmyFormat(<<2025, 6, 30>>) \o <<".txt">>}

\* the listings of at most n distinct keys, in any order
RECURSIVE Listings(_)
Listings(n) ==
    IF n = 0 THEN {<<>>}
    ELSE LET L == Listings(n - 1)
         IN  L \cup {Append(l, k) : l \in {x \in L : Len(x) = n - 1},
                                    k \in S3Keys}

DistinctKeys(l) == \A i, j \in 1..Len(l) : l[i] = l[j] => i = j

\* the answers of list_objects_v2: ClientError, no 'Contents', or a listing with a key
Responses ==
    {[error |-> "ClientError", Contents |-> None], NoListing}
    \cup {[error |-> "none", Contents |-> Some(l)] : l \in {x \in Listings(MaxKeys) : x # <<>> /\ DistinctKeys(x)}}

InitS3 == response \in Responses /\ table = <<>> /\ NoRequest /\ NoCallback

NextS3 ==
    \/ find_latest_file_in_s3
    \/ request_done

SpecS3 == InitS3 /\ [][NextS3]_vars

\* the keys of the listing of the bucket (none without 'Contents')
ListedKeys == IF IsNull(response.Contents) THEN <<>> ELSE Val(response.Contents)

\* the listed keys that match the pattern
MatchingIdx == {i \in 1..Len(ListedKeys) : NotNull(ReSearch(ListedKeys[i]))}

\* the date embedded in a matching key as the number yyyymmdd, read digit by digit
DateNumber(key) ==
    LET t == Val(ReSearch(key))
    IN  NatVal(SubSeq(t, 7, 10) \o SubSeq(t, 4, 5) \o SubSeq(t, 1, 2))

\* C16: find_latest_file_in_s3 returns for every listing: None on ClientError, without
\* 'Contents' and when no key matches the pattern; otherwise the first key in listing
\* order among the matching keys whose embedded date is the maximum.
C16_LatestMatchingKey ==
    handler = "find_latest_file_in_s3" =>
        /\ status = "returned"
        /\ IF response.error = "ClientError" \/ MatchingIdx = {} THEN latest_file = None
           ELSE \E i \in MatchingIdx :
                  /\ latest_file = Some(ListedKeys[i])
                  /\ \A j \in MatchingIdx : DateNumber(ListedKeys[j]) <= DateNumber(ListedKeys[i])
                  /\ \A j \in MatchingIdx :
                        j < i => DateNumber(ListedKeys[j]) < DateNumber(ListedKeys[i])

---------------------------------------------------------------------------
(* The dashboard: firings of load_selected_data on page load and on clicks, with and
   without a produsent or a search *)

MaxClicks == 1
MaxDashRows == 2

DashRows ==
    {[BaseRow EXCEPT !.finnkode = Some(k), !.produsent = Some(pd[1]), !.drivstoff = pd[2]] :
        k \in {1, 2},
        pd \in {<< <<"a">>, Some(<<"a">>) >>, << <<"a">>, None >>, << <<"b">>, Some(<<"b">>) >>}}

\* load-data-button.n_clicks: none or 0 before the first click, then the count
ClickCounts == {None, Some(0)} \cup {Some(k) : k \in 1..MaxClicks}

\* the State values of a page on which nothing is chosen but the default start date
NoValues ==
    [produsent |-> None, modell |-> None, startdato_str |-> Some(IsoFormat(DEFAULT_STARTDATE)),
     pf_drivstoff |-> None, pf_hjuldrift |-> None,
     km_fra |-> None, km_til |-> None, year_fra |-> None, year_til |-> None,
     modell_sok |-> None, seller_sok |-> None, range_fra |-> None, range_til |-> None]

DashValues ==
    {NoValues,
     [NoValues EXCEPT !.produsent = Some(<<>>)],
     [NoValues EXCEPT !.modell = Some(<<"b">>), !.pf_drivstoff = Some(<< <<"a">> >>)],
     [NoValues EXCEPT !.startdato_str = None, !.year_fra = Some(JNum(2015))],
     [NoValues EXCEPT !.produsent = Some(<<"a">>)],
     [NoValues EXCEPT !.produsent = Some(<<"b">>), !.startdato_str = None,
                      !.pf_drivstoff = Some(<< <<"a">> >>)],
     [NoValues EXCEPT !.produsent = Some(<<"a">>), !.startdato_str = Some(<<"x">>)],
     [NoValues EXCEPT !.modell_sok = Some(<<"a">>), !.seller_sok = Some(<<"z">>)]}

InitDash == table \in Tables(DashRows, MaxDashRows) /\ Idle

NextDash ==
    \/ \E n \in ClickCounts, sv \in DashValues, up \in BOOLEAN : load_selected_data(n, sv, Today, up)
    \/ request_done

SpecDash == InitDash /\ [][NextDash]_vars

\* one of produsent, modell_sok and seller_sok is set
OneSelected(sv) ==
    \/ TruthyText(sv.produsent)
    \/ TruthyText(sv.modell_sok)
    \/ TruthyText(sv.seller_sok)

\* C17: in every step of the page: a firing of load_selected_data without a click updates
\* nothing; a click with no produsent, no modell_sok and no seller_sok runs no query and
\* sets only the message, the two stores and the result filter options staying as they
\* are; and the stores change only on a click with one of the three set, both taking the
\* history and the summary of the one call of load_and_process_data.
C17_StoresReplacedTogether ==
    [][ /\ (n_clicks' = None \/ n_clicks' = Some(0)) =>
              UNCHANGED <<stored_cars_data, stored_daily_stats, loading_output,
                          res_drivstoff_opts, res_hjuldrift_opts>>
        /\ (callback' \in {"prevent_update", "no_update"}) =>
              /\ query' = <<>> /\ fetch' = "no"
              /\ UNCHANGED <<stored_cars_data, stored_daily_stats,
                             res_drivstoff_opts, res_hjuldrift_opts>>
        /\ (state_values' # <<>> /\ ~OneSelected(state_values')) =>
              /\ callback' \in {"prevent_update", "no_update"}
              /\ NotNull(n_clicks') /\ Val(n_clicks') > 0 => loading_output' = Some(SelectMessage)
        /\ (stored_cars_data' # stored_cars_data \/ stored_daily_stats' # stored_daily_stats) =>
              /\ NotNull(n_clicks') /\ Val(n_clicks') > 0
              /\ OneSelected(state_values')
              /\ handler' = "load_and_process_data" /\ status' = "returned"
              /\ stored_cars_data' = Some(ToJsonSplit(historikk'))
              /\ stored_daily_stats' = Some(JsonDumps(daily_stats'))
      ]_vars

\* after a click that loaded a history, a click with nothing selected: the message asks for
\* a selection and the stores still hold what was loaded
C17_Witness ==
    /\ callback = "no_update"
    /\ n_clicks = Some(1)
    /\ loading_output = Some(SelectMessage)
    /\ NotNull(stored_cars_data)
    /\ Val(stored_cars_data).data # <<>>
    /\ NotNull(stored_daily_stats)
    /\ status = "idle"

====
